---- MODULE Spec2Model ----
(***************************************************************************)
(* Parallel batch upload of AI-Agent-P3/upload_vectors.py: upsert_chunks   *)
(* plans the batches and runs upload_batch on a thread pool; upload_batch  *)
(* is the retry / rate-limit / split loop; UploadStats is the locked       *)
(* counter bundle.  Records are the integers 1..total_vectors, a batch is  *)
(* the contiguous slice lo+1..hi of them.  Around it: chunk_text (the      *)
(* windowing loop), the record ids, update_manifest, and the driver        *)
(* process_and_upload_pdfs that extracts, chunks, uploads and then writes  *)
(* the manifest.                                                           *)
(***************************************************************************)
EXTENDS Integers, Sequences, FiniteSets, TLC

\* ---- bounds of the model --------------------------------------------
\* upload_vectors.py:31 sets BATCH_SIZE = 100 and :34 PARALLEL_UPLOADS = 5;
\* the model runs the same code with a smaller batch size and pool.
BATCH_SIZE == 4
PARALLEL_UPLOADS == 2
\* largest number of batches a run is planned into
MaxBatches == 3
\* deepest nesting of upload_batch calls before the interpreter raises
\* RecursionError (sys.getrecursionlimit(), 1000 by default)
MaxDepth == 3
\* largest number of seconds a Retry-After header asks for
MaxRetryAfter == 2
\* largest number of answers other than a 200 for all records that the
\* remote store gives in a run of one batch, and in a run of several batches
MaxFaults == 6
MaxPoolFaults == 3

\* ---- program constants ----------------------------------------------
MAX_RETRIES == 3
BackoffCap == 30

None == "None"

VARIABLES
    total_vectors,      \* stats.total_vectors = len(vectors)
    batches,            \* the planned batches, <<lo, hi>> slices
    vectors_uploaded,   \* stats.vectors_uploaded
    batches_completed,  \* stats.batches_completed
    batches_failed,     \* stats.batches_failed
    lock,               \* stats._lock: 0 = free, else the worker holding it
    fut,                \* state of each submitted future
    outcome,            \* the value a finished future holds
    cur,                \* the batch each pool thread is running (0 = idle)
    stack,              \* call stack of upload_batch frames of each pool thread
    results,            \* the list `results` of upsert_chunks
    collected,          \* futures as_completed has already yielded
    mainpc,             \* position of the main thread
    ret,                \* what upsert_chunks returned to its caller
    faults_left,        \* answers other than a full 200 the remote store may still give
    calls,              \* record_batch_complete / record_batch_failed calls that
                        \* have returned, and the sum of the counts passed in
    \* chunk_text
    text,               \* the argument `text`, a sequence of characters
    size,               \* the argument `size`
    overlap,            \* the argument `overlap`
    start,              \* the cursor `start`
    chunks,             \* the list `chunks`, and after the return the returned list
    windows,            \* the pairs (start, end) the loop has sliced at
    cpc,                \* position in chunk_text: "loop" or "done"
    \* record ids
    ids,                \* the records built so far: file, page, chunk, token, id
    \* the manifest file
    manifest,           \* content of VECTOR_MANIFEST: file name -> list of entries
    \* process_and_upload_pdfs
    files,              \* the argument `uploaded_files`
    fidx,               \* position of the loop over uploaded_files
    all_vectors,        \* the list `all_vectors`
    file_vector_counts, \* the dict `file_vector_counts`, in insertion order
    dresults,           \* the list `results` of process_and_upload_pdfs
    dpc                 \* position in process_and_upload_pdfs

\* the variables of chunk_text, of the id builder, of the manifest and of
\* process_and_upload_pdfs: no step of upsert_chunks changes them
xvars == <<text, size, overlap, start, chunks, windows, cpc, ids, manifest,
           files, fidx, all_vectors, file_vector_counts, dresults, dpc>>

\* the variables of upsert_chunks, upload_batch and UploadStats
uvars == <<total_vectors, batches, vectors_uploaded, batches_completed,
           batches_failed, lock, fut, outcome, cur, stack, results,
           collected, mainpc, ret, faults_left, calls>>

\* the variables of chunk_text
cvars == <<text, size, overlap, start, chunks, windows, cpc>>

\* the variables of process_and_upload_pdfs
dvars == <<files, fidx, all_vectors, file_vector_counts, dresults, dpc>>

vars == <<total_vectors, batches, vectors_uploaded, batches_completed,
          batches_failed, lock, fut, outcome, cur, stack, results,
          collected, mainpc, ret, faults_left, calls, xvars>>

Workers == 1..PARALLEL_UPLOADS

\* ---- pure helpers ----------------------------------------------------
Min(a, b) == IF a < b THEN a ELSE b

RECURSIVE Pow2(_)
Pow2(k) == IF k = 0 THEN 1 ELSE 2 * Pow2(k - 1)

\* the plan without the last, shorter batch
PlanBatchesDropTail(n) ==
    [k \in 1..(n \div BATCH_SIZE) |->
        <<(k - 1) * BATCH_SIZE, Min(k * BATCH_SIZE, n)>>]

\* batches = [vectors[i:i + BATCH_SIZE] for i in range(0, len(vectors), BATCH_SIZE)]
PlanBatches(n) ==
    [k \in 1..((n + BATCH_SIZE - 1) \div BATCH_SIZE) |->
        <<(k - 1) * BATCH_SIZE, Min(k * BATCH_SIZE, n)>>]

\* the split rounded up instead of down
MidCeil(lo, hi) == lo + ((hi - lo + 1) \div 2)

\* mid = len(vectors) // 2, as an index into the record list
Mid(lo, hi) == lo + ((hi - lo) \div 2)

\* Python truthiness of an error value, as used by `or`
Truthy(e) == e # None /\ e # ""

\* r1.get('error') or r2.get('error')
PyOr(a, b) == IF Truthy(a) THEN a ELSE b

NoResult ==
    [success |-> FALSE, batch_num |-> 0, vectors_uploaded |-> -1, error |-> "-"]

\* the dict returned after a 200
OkResult(b, count) ==
    [success |-> TRUE, batch_num |-> b, vectors_uploaded |-> count,
     error |-> None]

\* the dict returned when the retry loop is exhausted
FailResult(b, err) ==
    [success |-> FALSE, batch_num |-> b, vectors_uploaded |-> 0,
     error |-> err]

\* the merge that reports the count of the first half only
MergeResultFirstHalf(b, r1, r2) ==
    [success |-> r1.success /\ r2.success,
     batch_num |-> b,
     vectors_uploaded |-> r1.vectors_uploaded,
     error |-> PyOr(r1.error, r2.error)]

\* the dict returned after a 413, from the results of the two halves
MergeResult(b, r1, r2) ==
    [success |-> r1.success /\ r2.success,
     batch_num |-> b,
     vectors_uploaded |-> r1.vectors_uploaded + r2.vectors_uploaded,
     error |-> PyOr(r1.error, r2.error)]

\* the Retry-After header of an answer: a number of seconds, absent, or a
\* value int() does not parse (an HTTP-date)
NoHeader == -1
BadHeader == -2

\* a fresh activation of upload_batch on the slice lo+1..hi
NewFrame(lo, hi) ==
    [lo |-> lo, hi |-> hi, attempt |-> 0, last_error |-> None, pc |-> "send",
     why |-> "-", delay |-> 0, waited |-> 0, ra |-> NoHeader, after429 |-> FALSE,
     r1 |-> NoResult, tmp |-> 0, count |-> 0, sends |-> 0, trans |-> TRUE]

Size(f) == f.hi - f.lo

\* ---- the remote store's answers --------------------------------------
\* count reported with a 200: all records, or one fewer (partial acceptance)
Counts(n) == {c \in {n - 1, n} : c >= 0}

RetryAfterValues == (0..MaxRetryAfter) \cup {NoHeader, BadHeader}

Responses(n) ==
    [kind : {"200"}, count : Counts(n), ra : {NoHeader}]
    \cup [kind : {"429"}, count : {0}, ra : RetryAfterValues]
    \cup [kind : {"413", "500", "timeout", "exc"}, count : {0}, ra : {NoHeader}]

ErrorOf(kind) ==
    CASE kind = "500" -> "HTTP 500"
      [] kind = "timeout" -> "Request timeout"
      [] OTHER -> "request exception"

\* ---- initial state ---------------------------------------------------
\* upsert_chunks up to the submission of the work items (lines 296-333),
\* for n records and a remote store that gives at most k answers other
\* than a 200 for all records
Start(n, k) ==
    /\ total_vectors = n
    /\ batches = PlanBatches(n)
    /\ vectors_uploaded = 0
    /\ batches_completed = 0
    /\ batches_failed = 0
    /\ lock = 0
    /\ fut = [i \in DOMAIN PlanBatches(n) |-> "pending"]
    /\ outcome = [i \in DOMAIN PlanBatches(n) |-> NoResult]
    /\ cur = [w \in Workers |-> 0]
    /\ stack = [w \in Workers |-> <<>>]
    /\ results = <<>>
    /\ collected = {}
    /\ mainpc = "collect"
    /\ ret = [returned |-> FALSE, success |-> FALSE, vectors_uploaded |-> 0,
              failed_batches |-> 0]
    /\ faults_left = k
    /\ calls = [complete |-> 0, failed |-> 0, vectors |-> 0]

\* ---- the parts of the program that are not running -------------------
\* chunk_text is not being called
NoChunker ==
    /\ text = <<>>
    /\ size = 1
    /\ overlap = 0
    /\ start = 0
    /\ chunks = <<>>
    /\ windows = <<>>
    /\ cpc = "idle"

\* no record is being built
NoIds == ids = <<>>

\* json content of a manifest file that does not exist yet: manifest = {}
EmptyManifest == [f \in {} |-> <<>>]

\* process_and_upload_pdfs is not the caller
NoDriver ==
    /\ files = <<>>
    /\ fidx = 1
    /\ all_vectors = <<>>
    /\ file_vector_counts = <<>>
    /\ dresults = <<>>
    /\ dpc = "idle"

\* upsert_chunks has not been called; the remote store will give at most k
\* answers other than a 200 for all records
NoUpload(k) ==
    /\ total_vectors = 0
    /\ batches = <<>>
    /\ vectors_uploaded = 0
    /\ batches_completed = 0
    /\ batches_failed = 0
    /\ lock = 0
    /\ fut = <<>>
    /\ outcome = <<>>
    /\ cur = [w \in Workers |-> 0]
    /\ stack = [w \in Workers |-> <<>>]
    /\ results = <<>>
    /\ collected = {}
    /\ mainpc = "idle"
    /\ ret = [returned |-> FALSE, success |-> FALSE, vectors_uploaded |-> 0,
              failed_batches |-> 0]
    /\ faults_left = k
    /\ calls = [complete |-> 0, failed |-> 0, vectors |-> 0]

\* upsert_chunks called on its own
Standalone == NoChunker /\ NoIds /\ manifest = EmptyManifest /\ NoDriver

\* a run of several batches: more batches than pool threads, the last
\* batch of one record or full
Init ==
    /\ \E n \in {(MaxBatches - 1) * BATCH_SIZE + 1, MaxBatches * BATCH_SIZE} :
          Start(n, MaxPoolFaults)
    /\ Standalone

\* a run of a single batch of 1..BATCH_SIZE records
InitBatch ==
    /\ \E n \in 1..BATCH_SIZE : Start(n, MaxFaults)
    /\ Standalone

\* a run of two batches, the second of one record or full: every batch
\* has a pool thread at once
InitPair ==
    /\ \E n \in {BATCH_SIZE + 1, 2 * BATCH_SIZE} : Start(n, MaxPoolFaults)
    /\ Standalone

\* ---- upload_batch ----------------------------------------------------
Top(w) == stack[w][Len(stack[w])]

Below(w) == SubSeq(stack[w], 1, Len(stack[w]) - 1)

Transient(kind) == kind \in {"500", "timeout", "exc"}

\* the loop run over range(MAX_RETRIES + 1)
NextIterationExtraPass(f) ==
    [f EXCEPT !.attempt = f.attempt + 1,
              !.why = "-", !.delay = 0, !.waited = 0,
              !.pc = IF f.attempt + 1 < MAX_RETRIES + 1 THEN "send"
                                                        ELSE "fail_lock"]

\* end of one pass of `for attempt in range(MAX_RETRIES)`: the next pass
\* sends again, the end of the range falls through to record_batch_failed
NextIteration(f) ==
    [f EXCEPT !.attempt = f.attempt + 1,
              !.why = "-", !.delay = 0, !.waited = 0,
              !.pc = IF f.attempt + 1 < MAX_RETRIES THEN "send" ELSE "fail_lock"]

\* time.sleep(d) inside the loop
Sleep(f, why, d) ==
    [f EXCEPT !.pc = "sleep", !.why = why, !.delay = d, !.waited = 0]

\* the wait computed from the attempt alone, the header ignored
RetryAfterIgnoresHeader(f, ra) == Pow2(f.attempt)

\* retry_after = int(response.headers.get('Retry-After', 2 ** attempt))
RetryAfter(f, ra) == IF ra = NoHeader THEN Pow2(f.attempt) ELSE ra

\* a wait of the same length after every attempt
BackoffConstant(f) == 1

\* min(2 ** attempt, 30)
Backoff(f) == Min(Pow2(f.attempt), BackoffCap)

\* a frame returns `res`: the caller below it either starts the second
\* half (line 254) or merges and returns itself (lines 256-262)
RECURSIVE Unwind(_, _, _)
Unwind(stk, b, res) ==
    IF stk = <<>>
    THEN [stack |-> <<>>, fin |-> TRUE, res |-> res]
    ELSE LET p == stk[Len(stk)] IN
         IF p.pc = "call1"
         THEN [stack |-> Append([stk EXCEPT ![Len(stk)] =
                                    [p EXCEPT !.pc = "call2", !.r1 = res]],
                                NewFrame(Mid(p.lo, p.hi), p.hi)),
               fin |-> FALSE, res |-> NoResult]
         ELSE Unwind(SubSeq(stk, 1, Len(stk) - 1), b, MergeResult(b, p.r1, res))

\* the top frame of thread w returns res
Return(w, res) ==
    LET u == Unwind(Below(w), cur[w], res) IN
    IF u.fin
    THEN /\ fut' = [fut EXCEPT ![cur[w]] = "done"]
         /\ outcome' = [outcome EXCEPT ![cur[w]] = u.res]
         /\ cur' = [cur EXCEPT ![w] = 0]
         /\ stack' = [stack EXCEPT ![w] = <<>>]
    ELSE /\ stack' = [stack EXCEPT ![w] = u.stack]
         /\ UNCHANGED <<fut, outcome, cur>>

\* an exception no frame catches (ValueError, RecursionError) ends the
\* work item: the future holds the exception
Raise(w) ==
    /\ fut' = [fut EXCEPT ![cur[w]] = "raised"]
    /\ cur' = [cur EXCEPT ![w] = 0]
    /\ stack' = [stack EXCEPT ![w] = <<>>]
    /\ UNCHANGED outcome

\* a pool thread taking the next work item before it has finished its own
TakeWhileBusy(w) ==
    /\ \E i \in DOMAIN batches :
          /\ fut[i] = "pending"
          /\ \A j \in DOMAIN batches : j < i => fut[j] # "pending"
          /\ fut' = [fut EXCEPT ![i] = "running"]
          /\ cur' = [cur EXCEPT ![w] = i]
          /\ stack' = [stack EXCEPT ![w] =
                            <<NewFrame(batches[i][1], batches[i][2])>>]
    /\ UNCHANGED <<xvars, total_vectors, batches, vectors_uploaded, batches_completed,
                   batches_failed, lock, outcome, results, collected, mainpc,
                   ret, faults_left, calls>>

\* a pool thread takes the oldest queued work item; the idle threads are
\* interchangeable, the one with the lowest number is taken to be the one
\* that wakes up
Take(w) ==
    /\ cur[w] = 0
    /\ \A v \in Workers : v < w => cur[v] # 0
    /\ \E i \in DOMAIN batches :
          /\ fut[i] = "pending"
          /\ \A j \in DOMAIN batches : j < i => fut[j] # "pending"
          /\ fut' = [fut EXCEPT ![i] = "running"]
          /\ cur' = [cur EXCEPT ![w] = i]
          /\ stack' = [stack EXCEPT ![w] =
                            <<NewFrame(batches[i][1], batches[i][2])>>]
    /\ UNCHANGED <<xvars, total_vectors, batches, vectors_uploaded, batches_completed,
                   batches_failed, lock, outcome, results, collected, mainpc,
                   ret, faults_left, calls>>

\* the handling of one answer to session.post, up to the next point where
\* the thread blocks (a sleep, the lock, a nested call)
Handle(w, resp) ==
    LET f == [Top(w) EXCEPT !.sends = @ + 1,
                            !.trans = @ /\ Transient(resp.kind),
                            !.after429 = IF resp.kind = "200" THEN @
                                         ELSE resp.kind = "429",
                            !.ra = resp.ra]
        g == [f EXCEPT !.last_error = ErrorOf(resp.kind)]
        put(h) == /\ stack' = [stack EXCEPT ![w][Len(stack[w])] = h]
                  /\ UNCHANGED <<fut, outcome, cur>>
    IN
    CASE resp.kind = "200" ->
           put([NewFrame(f.lo, f.hi) EXCEPT !.pc = "ok_lock",
                                            !.count = resp.count,
                                            !.after429 = f.after429,
                                            !.ra = Top(w).ra])
      [] resp.kind = "429" ->
           IF resp.ra = BadHeader
           THEN Raise(w)
           ELSE put(Sleep(f, "rate", RetryAfter(f, resp.ra)))
      [] resp.kind = "413" ->
           IF Len(stack[w]) >= MaxDepth
           THEN Raise(w)
           ELSE /\ stack' = [stack EXCEPT ![w] =
                      Append([stack[w] EXCEPT ![Len(stack[w])] =
                                 [NewFrame(f.lo, f.hi) EXCEPT !.pc = "call1"]],
                             NewFrame(f.lo, Mid(f.lo, f.hi)))]
                /\ UNCHANGED <<fut, outcome, cur>>
      [] OTHER ->
           IF g.attempt < MAX_RETRIES - 1
           THEN put(Sleep(g, "backoff", Backoff(g)))
           ELSE put(NextIteration(g))

\* an answer other than a 200 that reports every record of the batch
Fault(f, resp) == ~(resp.kind = "200" /\ resp.count = Size(f))

\* response = session.post(url, json=payload, timeout=TIMEOUT)
Send(w) ==
    /\ cur[w] # 0
    /\ Top(w).pc = "send"
    /\ \E resp \in Responses(Size(Top(w))) :
         /\ Fault(Top(w), resp) => faults_left > 0
         /\ faults_left' = IF Fault(Top(w), resp) THEN faults_left - 1
                                                  ELSE faults_left
         /\ Handle(w, resp)
    /\ UNCHANGED <<xvars, total_vectors, batches, vectors_uploaded, batches_completed,
                   batches_failed, lock, results, collected, mainpc, ret,
                   calls>>

\* time.sleep returns: `continue`, or the end of the loop body
Wake(w) ==
    /\ cur[w] # 0
    /\ Top(w).pc = "sleep"
    /\ Top(w).waited >= Top(w).delay
    /\ stack' = [stack EXCEPT ![w][Len(stack[w])] = NextIteration(Top(w))]
    /\ UNCHANGED <<xvars, total_vectors, batches, vectors_uploaded, batches_completed,
                   batches_failed, lock, fut, outcome, cur, results, collected,
                   mainpc, ret,
                   faults_left, calls>>

Sleeping(w) ==
    /\ cur[w] # 0
    /\ Top(w).pc = "sleep"
    /\ Top(w).waited < Top(w).delay

\* one time unit passes for every thread that is asleep
Tick ==
    /\ \E w \in Workers : Sleeping(w)
    /\ stack' = [w \in Workers |->
                    IF Sleeping(w)
                    THEN [stack[w] EXCEPT ![Len(stack[w])].waited = @ + 1]
                    ELSE stack[w]]
    /\ UNCHANGED <<xvars, total_vectors, batches, vectors_uploaded, batches_completed,
                   batches_failed, lock, fut, outcome, cur, results, collected,
                   mainpc, ret,
                   faults_left, calls>>

\* ---- UploadStats ------------------------------------------------------
\* the counters updated without mutual exclusion
CanAcquireUnlocked(w) == TRUE

\* `with self._lock:` lets a thread in when no thread holds the lock
CanAcquire(w) == lock = 0

\* record_batch_complete: take the lock, read vectors_uploaded
AcquireComplete(w) ==
    /\ cur[w] # 0
    /\ Top(w).pc = "ok_lock"
    /\ CanAcquire(w)
    /\ lock' = w
    /\ stack' = [stack EXCEPT ![w][Len(stack[w])] =
                     [Top(w) EXCEPT !.pc = "ok_vectors", !.tmp = vectors_uploaded]]
    /\ UNCHANGED <<xvars, total_vectors, batches, vectors_uploaded, batches_completed,
                   batches_failed, fut, outcome, cur, results, collected,
                   mainpc, ret,
                   faults_left, calls>>

\* self.vectors_uploaded += vectors_count (the store), then the read of
\* self.batches_completed
StoreVectors(w) ==
    /\ cur[w] # 0
    /\ Top(w).pc = "ok_vectors"
    /\ vectors_uploaded' = Top(w).tmp + Top(w).count
    /\ stack' = [stack EXCEPT ![w][Len(stack[w])] =
                     [Top(w) EXCEPT !.pc = "ok_batches", !.tmp = batches_completed]]
    /\ UNCHANGED <<xvars, total_vectors, batches, batches_completed, batches_failed,
                   lock, fut, outcome, cur, results, collected, mainpc, ret,
                   faults_left, calls>>

\* record_batch_complete returning with the lock still held
StoreCompletedKeepsLock(w) ==
    /\ cur[w] # 0
    /\ Top(w).pc = "ok_batches"
    /\ batches_completed' = Top(w).tmp + 1
    /\ lock' = w
    /\ calls' = [calls EXCEPT !.complete = @ + 1,
                               !.vectors = @ + Top(w).count]
    /\ Return(w, OkResult(cur[w], Top(w).count))
    /\ UNCHANGED <<xvars, total_vectors, batches, vectors_uploaded, batches_failed,
                   results, collected, mainpc, ret, faults_left>>

\* self.batches_completed += 1 (the store), the lock is released and
\* upload_batch returns the success dict (batch_times.append happens under
\* the same lock; durations are not part of the model)
StoreCompleted(w) ==
    /\ cur[w] # 0
    /\ Top(w).pc = "ok_batches"
    /\ batches_completed' = Top(w).tmp + 1
    /\ lock' = 0
    /\ calls' = [calls EXCEPT !.complete = @ + 1,
                               !.vectors = @ + Top(w).count]
    /\ Return(w, OkResult(cur[w], Top(w).count))
    /\ UNCHANGED <<xvars, total_vectors, batches, vectors_uploaded, batches_failed,
                   results, collected, mainpc, ret, faults_left>>

\* the exhausted loop raising instead of returning the failure dict
StoreFailedRaises(w) ==
    /\ cur[w] # 0
    /\ Top(w).pc = "fail_batches"
    /\ batches_failed' = Top(w).tmp + 1
    /\ lock' = 0
    /\ calls' = [calls EXCEPT !.failed = @ + 1]
    /\ Raise(w)
    /\ UNCHANGED <<xvars, total_vectors, batches, vectors_uploaded, batches_completed,
                   results, collected, mainpc, ret, faults_left>>

\* record_batch_failed: take the lock, read batches_failed
AcquireFailed(w) ==
    /\ cur[w] # 0
    /\ Top(w).pc = "fail_lock"
    /\ CanAcquire(w)
    /\ lock' = w
    /\ stack' = [stack EXCEPT ![w][Len(stack[w])] =
                     [Top(w) EXCEPT !.pc = "fail_batches", !.tmp = batches_failed]]
    /\ UNCHANGED <<xvars, total_vectors, batches, vectors_uploaded, batches_completed,
                   batches_failed, fut, outcome, cur, results, collected,
                   mainpc, ret,
                   faults_left, calls>>

\* self.batches_failed += 1 (the store), the lock is released and
\* upload_batch returns the failure dict
StoreFailed(w) ==
    /\ cur[w] # 0
    /\ Top(w).pc = "fail_batches"
    /\ batches_failed' = Top(w).tmp + 1
    /\ lock' = 0
    /\ calls' = [calls EXCEPT !.failed = @ + 1]
    /\ Return(w, FailResult(cur[w], Top(w).last_error))
    /\ UNCHANGED <<xvars, total_vectors, batches, vectors_uploaded, batches_completed,
                   results, collected, mainpc, ret, faults_left>>

\* ---- upsert_chunks: the main thread -----------------------------------
Finished(i) == fut[i] \in {"done", "raised"}

\* as_completed yields a finished future; future.result() returns its dict
\* or re-raises its exception.  An exception leaves the loop: nothing reads
\* the locals `results` and `futures` again, they are dropped here
Collect(i) ==
    /\ mainpc = "collect"
    /\ i \notin collected
    /\ Finished(i)
    /\ IF fut[i] = "done"
       THEN /\ results' = Append(results, outcome[i])
            /\ collected' = collected \cup {i}
            /\ UNCHANGED mainpc
       ELSE /\ mainpc' = "raising"
            /\ results' = <<>>
            /\ collected' = {}
    /\ UNCHANGED <<xvars, total_vectors, batches, vectors_uploaded, batches_completed,
                   batches_failed, lock, fut, outcome, cur, stack, ret,
                   faults_left, calls>>

\* failed = sum(1 for r in results if not r['success'])
FailedCount(seq) == Cardinality({k \in DOMAIN seq : ~seq[k].success})

\* the loop over as_completed ends: the summary and the returned dict
Summarize ==
    /\ mainpc = "collect"
    /\ collected = DOMAIN batches
    /\ LET failed == FailedCount(results) IN
       ret' = [returned |-> TRUE, success |-> failed = 0,
               vectors_uploaded |-> vectors_uploaded,
               failed_batches |-> failed]
    /\ mainpc' = "returned"
    /\ UNCHANGED <<xvars, total_vectors, batches, vectors_uploaded, batches_completed,
                   batches_failed, lock, fut, outcome, cur, stack, results,
                   collected, faults_left, calls>>

\* KeyboardInterrupt reaches the main thread inside the `with` block; like
\* any exception it leaves the loop and drops `results`
Interrupt ==
    /\ mainpc = "collect"
    /\ mainpc' = "interrupted"
    /\ results' = <<>>
    /\ collected' = {}
    /\ UNCHANGED <<xvars, total_vectors, batches, vectors_uploaded, batches_completed,
                   batches_failed, lock, fut, outcome, cur, stack, ret,
                   faults_left, calls>>

\* an exception leaves the `with` block: executor.shutdown(wait=True) joins
\* the pool threads, which first run every queued work item; the exception then
\* leaves upsert_chunks and __main__ exits with status 1
Unwound ==
    /\ mainpc \in {"raising", "interrupted"}
    /\ \A i \in DOMAIN batches : Finished(i)
    /\ mainpc' = IF mainpc = "raising" THEN "fatal" ELSE "interrupted_exit"
    /\ UNCHANGED <<xvars, total_vectors, batches, vectors_uploaded, batches_completed,
                   batches_failed, lock, fut, outcome, cur, stack, results,
                   collected, ret, faults_left, calls>>

WorkerStep(w) ==
    \/ Take(w)
    \/ Send(w)
    \/ Wake(w)
    \/ AcquireComplete(w)
    \/ StoreVectors(w)
    \/ StoreCompleted(w)
    \/ AcquireFailed(w)
    \/ StoreFailed(w)

Next ==
    \/ \E w \in Workers : WorkerStep(w)
    \/ Tick
    \/ \E i \in DOMAIN batches : Collect(i)
    \/ Summarize
    \/ Interrupt
    \/ Unwound

Spec == Init /\ [][Next]_vars

SpecBatch == InitBatch /\ [][Next]_vars

SpecPair == InitPair /\ [][Next]_vars

\* ---- chunk_text -------------------------------------------------------
\* bounds: the longest text, the largest `size` and `overlap` argument, and
\* the number of passes after which a call that does not end is left alone
MaxLen == 5
MaxSize == 3
MaxPasses == 7

\* a text is a sequence of characters; " " stands for the whitespace
\* characters, "a" for the others
Chars == {" ", "a"}

Texts == UNION {[1..n -> Chars] : n \in 0..MaxLen}

Max(a, b) == IF a > b THEN a ELSE b

\* the position a slice bound i stands for in a sequence of length n
SliceIndex(i, n) == IF i < 0 THEN Max(i + n, 0) ELSE Min(i, n)

\* s[a:b]
PySlice(s, a, b) ==
    LET lo == SliceIndex(a, Len(s))
        hi == SliceIndex(b, Len(s))
    IN  IF lo < hi THEN SubSeq(s, lo + 1, hi) ELSE <<>>

RECURSIVE LStrip(_)
LStrip(s) == IF s # <<>> /\ Head(s) = " " THEN LStrip(Tail(s)) ELSE s

RECURSIVE RStrip(_)
RStrip(s) ==
    IF s # <<>> /\ s[Len(s)] = " " THEN RStrip(SubSeq(s, 1, Len(s) - 1)) ELSE s

\* [c for c in chunks if c]
NonEmpty(seq) == SelectSeq(seq, LAMBDA c : c # <<>>)

\* the cursor moved on by `size` alone
AdvanceNoOverlap(end, ov) == end

\* start = end - overlap
Advance(end, ov) == end - ov

\* a strip of the left end only
StripLeft(s) == LStrip(s)

\* s.strip()
Strip(s) == RStrip(LStrip(s))

\* one test of `while start < len(text)` and, when it holds, one pass of
\* the loop body, on the locals st of a call chunk_text(t, sz, ov)
LoopPass(t, sz, ov, st) ==
    IF ~(st.start < Len(t))
    THEN [st EXCEPT !.chunks = NonEmpty(st.chunks), !.pc = "done"]
    ELSE LET end == Min(st.start + sz, Len(t))
             c == Append(st.chunks, Strip(PySlice(t, st.start, end)))
             w == Append(st.windows, <<st.start, end>>)
         IN  IF end = Len(t)
             THEN [start |-> st.start, chunks |-> NonEmpty(c),
                   windows |-> w, pc |-> "done"]
             ELSE [start |-> Advance(end, ov), chunks |-> c, windows |-> w,
                   pc |-> "loop"]

\* the locals at the entry of chunk_text
Entry == [start |-> 0, chunks |-> <<>>, windows |-> <<>>, pc |-> "loop"]

RECURSIVE RunLoop(_, _, _, _)
RunLoop(t, sz, ov, st) ==
    IF st.pc = "done" THEN st.chunks ELSE RunLoop(t, sz, ov, LoopPass(t, sz, ov, st))

\* the list chunk_text(t, sz, ov) returns
chunk_text(t, sz, ov) == RunLoop(t, sz, ov, Entry)

\* a call chunk_text(text, size, overlap) on any text, with any size > 0 and
\* any overlap >= 0: the function checks neither
InitChunk ==
    /\ text \in Texts
    /\ size \in 1..MaxSize
    /\ overlap \in 0..MaxSize
    /\ start = 0
    /\ chunks = <<>>
    /\ windows = <<>>
    /\ cpc = "loop"
    /\ NoIds
    /\ manifest = EmptyManifest
    /\ NoDriver
    /\ NoUpload(0)

\* one pass of the loop of the running call
ChunkStep ==
    /\ cpc = "loop"
    /\ Len(windows) < MaxPasses
    /\ LET st == LoopPass(text, size, overlap,
                          [start |-> start, chunks |-> chunks,
                           windows |-> windows, pc |-> cpc])
       IN  /\ start' = st.start
           /\ chunks' = st.chunks
           /\ windows' = st.windows
           /\ cpc' = st.pc
    /\ UNCHANGED <<text, size, overlap, ids, manifest, dvars, uvars>>

\* the call runs on its own thread of control and is never suspended
SpecChunk == InitChunk /\ [][ChunkStep]_vars /\ WF_vars(ChunkStep)

\* ---- update_manifest --------------------------------------------------
\* bounds: entries written in a sequence of calls, largest chunk count
\* passed in, and the values the clock shows
MaxEntries == 4
MaxCount == 2
MaxClock == 2

FileNames == {"a.pdf", "b.pdf"}

\* manifest.get(f, [])
Entries(m, f) == IF f \in DOMAIN m THEN m[f] ELSE <<>>

\* the entry assigned in place of the list: manifest[file_name] = [entry]
update_manifest_overwrite(m, f, c, ts) ==
    [g \in DOMAIN m \cup {f} |->
        IF g = f THEN <<[chunks |-> c, last_updated |-> ts]>> ELSE m[g]]

\* the content of the manifest file after update_manifest(f, c) run at
\* time ts on a file of content m:
\* manifest.setdefault(file_name, []).append(entry), then json.dump
update_manifest(m, f, c, ts) ==
    [g \in DOMAIN m \cup {f} |->
        IF g = f
        THEN Append(Entries(m, f), [chunks |-> c, last_updated |-> ts])
        ELSE m[g]]

TotalEntries(m) ==
    LET RECURSIVE Sum(_)
        Sum(S) == IF S = {} THEN 0
                  ELSE LET f == CHOOSE g \in S : TRUE
                       IN  Len(m[f]) + Sum(S \ {f})
    IN  Sum(DOMAIN m)

\* a sequence of update_manifest calls that starts with no manifest file
InitManifest ==
    /\ manifest = EmptyManifest
    /\ NoChunker
    /\ NoIds
    /\ NoDriver
    /\ NoUpload(0)

\* one call update_manifest(f, c)
CallUpdateManifest ==
    /\ TotalEntries(manifest) < MaxEntries
    /\ \E f \in FileNames, c \in 1..MaxCount, ts \in 1..MaxClock :
          manifest' = update_manifest(manifest, f, c, ts)
    /\ UNCHANGED <<cvars, ids, dvars, uvars>>

SpecManifest == InitManifest /\ [][CallUpdateManifest]_vars

\* ---- record ids -------------------------------------------------------
\* bounds: records built in a run, length of the random token
\* (uuid4().hex has 32 characters), last page and last chunk index
MaxRecords == 2
TokenLen == 2
MaxPage == 2
MaxIdx == 0

\* the characters of the model: letters, digits, the two allowed signs and
\* two characters outside the allowed set
Letters == {"a", "c", "p"}

DigitChars == {"0", "1", "2", "3", "4", "5", "6", "7", "8", "9"}

\* the complement of the class [^a-zA-Z0-9_-]
IdChars == Letters \cup DigitChars \cup {"_", "-"}

\* file names of the documents of a run; the first two differ and sanitize
\* to the same string
DocNames == {<<"a", ".">>, <<"a", "_">>, <<"a">>}

\* uuid.uuid4().hex: lower-case hexadecimal digits
HexChars == {"1", "a"}

Tokens == [1..TokenLen -> HexChars]

\* re.sub(r"[^a-zA-Z0-9_-]", "_", value)
sanitize_id(value) ==
    [i \in DOMAIN value |-> IF value[i] \in IdChars THEN value[i] ELSE "_"]

\* str(n) of a non-negative integer
RECURSIVE Str(_)
Str(n) ==
    LET d == <<"0", "1", "2", "3", "4", "5", "6", "7", "8", "9">>[(n % 10) + 1]
    IN  IF n < 10 THEN <<d>> ELSE Str(n \div 10) \o <<d>>

\* the id built without the random token
MakeIdNoToken(safe_file, token, page, idx) ==
    safe_file \o <<"_", "p">> \o Str(page) \o <<"_", "c">> \o Str(idx)

\* f"{safe_file}_{uuid.uuid4().hex}_p{p['page']}_c{idx}"
MakeId(safe_file, token, page, idx) ==
    safe_file \o <<"_">> \o token \o <<"_", "p">> \o Str(page)
        \o <<"_", "c">> \o Str(idx)

\* the tokens of the records built so far
UsedTokens == {ids[k].token : k \in DOMAIN ids}

\* a run that has built no record yet
InitIds ==
    /\ ids = <<>>
    /\ NoChunker
    /\ manifest = EmptyManifest
    /\ NoDriver
    /\ NoUpload(0)

\* one record is built (lines 423-438) for a chunk of some page of some
\* file, with a token uuid4 has not given before
BuildRecord ==
    /\ Len(ids) < MaxRecords
    /\ \E name \in DocNames, page \in 1..MaxPage, idx \in 0..MaxIdx,
          token \in Tokens \ UsedTokens :
          ids' = Append(ids,
                    [file |-> name, page |-> page, chunk |-> idx,
                     token |-> token,
                     id |-> MakeId(sanitize_id(name), token, page, idx)])
    /\ UNCHANGED <<cvars, manifest, dvars, uvars>>

SpecIds == InitIds /\ [][BuildRecord]_vars

\* ---- process_and_upload_pdfs ------------------------------------------
\* bounds: upload_vectors.py:29 sets CHUNK_SIZE = 1200 and :30
\* CHUNK_OVERLAP = 150, the model chunks with a smaller window; and the
\* answers other than a 200 for all records in a run of the whole pipeline
CHUNK_SIZE == 3
CHUNK_OVERLAP == 1
MaxDriverFaults == 3

\* page texts as the PDF reader gives them
PageBlank == <<" ">>

PageShort == <<"a", "a">>

PageLong == <<"a", "a", " ", "a", "a">>

\* what reading a file gives: an exception, or the texts of its pages
Documents ==
    {[error |-> TRUE, pages |-> <<>>],
     [error |-> FALSE, pages |-> <<>>],
     [error |-> FALSE, pages |-> <<PageBlank>>],
     [error |-> FALSE, pages |-> <<PageShort>>],
     [error |-> FALSE, pages |-> <<PageBlank, PageLong>>],
     [error |-> FALSE, pages |-> <<PageLong, PageLong>>]}

\* the names of the uploaded files, in the order of the argument list
UploadedNames == <<"a.pdf", "b.pdf">>

\* extract_pdf_text: the pages whose stripped text is not empty, numbered
\* from 1
extract_pdf_text(raw) ==
    SelectSeq([i \in DOMAIN raw |-> [page |-> i, text |-> Strip(raw[i])]],
              LAMBDA pg : pg.text # <<>>)

\* the list file_vectors built by the loops of lines 426-438
RECURSIVE FileVectors(_, _)
FileVectors(name, pages) ==
    IF pages = <<>> THEN <<>>
    ELSE LET pg == Head(pages)
             cs == chunk_text(pg.text, CHUNK_SIZE, CHUNK_OVERLAP)
         IN  [k \in 1..Len(cs) |->
                 [file |-> name, page |-> pg.page, chunk |-> k - 1]]
             \o FileVectors(name, Tail(pages))

\* d[key] = val on a dict kept as the list of its items in insertion order
DictSet(d, key, val) ==
    IF \E k \in DOMAIN d : d[k].name = key
    THEN [k \in DOMAIN d |-> IF d[k].name = key
                             THEN [name |-> key, count |-> val] ELSE d[k]]
    ELSE Append(d, [name |-> key, count |-> val])

\* an item of the list `results`; chunks = -1 where the dict has no such key
FileResult(name, status, n) == [filename |-> name, status |-> status, chunks |-> n]

\* entry of process_and_upload_pdfs with the files of the argument list
InitDriver ==
    /\ files \in {f \in [DOMAIN UploadedNames ->
                           [name : {UploadedNames[i] : i \in DOMAIN UploadedNames},
                            error : BOOLEAN,
                            pages : {d.pages : d \in Documents}]] :
                    \A i \in DOMAIN f :
                        /\ f[i].name = UploadedNames[i]
                        /\ [error |-> f[i].error, pages |-> f[i].pages] \in Documents}
    /\ fidx = 1
    /\ all_vectors = <<>>
    /\ file_vector_counts = <<>>
    /\ dresults = <<>>
    /\ dpc = "extract"
    /\ manifest = EmptyManifest
    /\ NoChunker
    /\ NoIds
    /\ NoUpload(MaxDriverFaults)

\* Phase 1 with no try/except around the extraction: the exception of one
\* file leaves process_and_upload_pdfs
ExtractFileAborts ==
    /\ dpc = "extract"
    /\ fidx <= Len(files)
    /\ LET up == files[fidx]
           pages == extract_pdf_text(up.pages)
           file_vectors == FileVectors(up.name, pages)
       IN  IF up.error
           THEN /\ dpc' = "raised"
                /\ UNCHANGED <<dresults, all_vectors, file_vector_counts>>
           ELSE IF pages = <<>> \/ file_vectors = <<>>
           THEN /\ dresults' = Append(dresults, FileResult(up.name, "skipped", -1))
                /\ UNCHANGED <<dpc, all_vectors, file_vector_counts>>
           ELSE /\ all_vectors' = all_vectors \o file_vectors
                /\ file_vector_counts' =
                      DictSet(file_vector_counts, up.name, Len(file_vectors))
                /\ UNCHANGED <<dpc, dresults>>
    /\ fidx' = fidx + 1
    /\ UNCHANGED <<files, cvars, ids, manifest, uvars>>

\* Phase 1, one pass of the loop over uploaded_files (lines 409-453)
ExtractFile ==
    /\ dpc = "extract"
    /\ fidx <= Len(files)
    /\ LET up == files[fidx]
           pages == extract_pdf_text(up.pages)
           file_vectors == FileVectors(up.name, pages)
       IN  IF up.error
           THEN /\ dresults' = Append(dresults, FileResult(up.name, "error", -1))
                /\ UNCHANGED <<all_vectors, file_vector_counts>>
           ELSE IF pages = <<>>
           THEN /\ dresults' = Append(dresults, FileResult(up.name, "skipped", -1))
                /\ UNCHANGED <<all_vectors, file_vector_counts>>
           ELSE IF file_vectors # <<>>
           THEN /\ all_vectors' = all_vectors \o file_vectors
                /\ file_vector_counts' =
                      DictSet(file_vector_counts, up.name, Len(file_vectors))
                /\ UNCHANGED dresults
           ELSE /\ dresults' = Append(dresults, FileResult(up.name, "skipped", -1))
                /\ UNCHANGED <<all_vectors, file_vector_counts>>
    /\ fidx' = fidx + 1
    /\ UNCHANGED <<files, dpc, cvars, ids, manifest, uvars>>

\* `if not all_vectors: return results`
NoVectors ==
    /\ dpc = "extract"
    /\ fidx > Len(files)
    /\ all_vectors = <<>>
    /\ dpc' = "done"
    /\ UNCHANGED <<files, fidx, all_vectors, file_vector_counts, dresults,
                   cvars, ids, manifest, uvars>>

\* Phase 2: upsert_chunks(index_id, all_vectors) is called and runs up to
\* the submission of the work items
StartUpload ==
    /\ dpc = "extract"
    /\ fidx > Len(files)
    /\ all_vectors # <<>>
    /\ total_vectors' = Len(all_vectors)
    /\ batches' = PlanBatches(Len(all_vectors))
    /\ fut' = [i \in DOMAIN PlanBatches(Len(all_vectors)) |-> "pending"]
    /\ outcome' = [i \in DOMAIN PlanBatches(Len(all_vectors)) |-> NoResult]
    /\ mainpc' = "collect"
    /\ dpc' = "upload"
    /\ fidx' = 1
    /\ UNCHANGED <<vectors_uploaded, batches_completed, batches_failed, lock,
                   cur, stack, results, collected, ret, faults_left, calls,
                   files, all_vectors, file_vector_counts, dresults, cvars,
                   ids, manifest>>

\* upsert_chunks has returned upload_result: one pass of the loop over
\* file_vector_counts.items() (lines 465-470), fidx counting its passes
RecordFile ==
    /\ dpc = "upload"
    /\ mainpc = "returned"
    /\ fidx <= Len(file_vector_counts)
    /\ LET filename == file_vector_counts[fidx].name
           count == file_vector_counts[fidx].count
       IN  IF ret.success \/ ret.vectors_uploaded > 0
           THEN /\ \E ts \in 1..MaxClock :
                      manifest' = update_manifest(manifest, filename, count, ts)
                /\ dresults' = Append(dresults, FileResult(filename, "success", count))
           ELSE /\ dresults' = Append(dresults, FileResult(filename, "partial", count))
                /\ UNCHANGED manifest
    /\ fidx' = fidx + 1
    /\ UNCHANGED <<files, all_vectors, file_vector_counts, dpc, cvars, ids, uvars>>

\* the loop is over: the final summary and `return results`
DriverReturn ==
    /\ dpc = "upload"
    /\ mainpc = "returned"
    /\ fidx > Len(file_vector_counts)
    /\ dpc' = "done"
    /\ UNCHANGED <<files, fidx, all_vectors, file_vector_counts, dresults,
                   cvars, ids, manifest, uvars>>

NextDriver ==
    \/ ExtractFile
    \/ NoVectors
    \/ StartUpload
    \/ Next
    \/ RecordFile
    \/ DriverReturn

SpecDriver == InitDriver /\ [][NextDriver]_vars

\* ---- vocabulary of the properties -------------------------------------
Busy(w) == cur[w] # 0

OkPath == {"ok_lock", "ok_vectors", "ok_batches"}

FailPath == {"fail_lock", "fail_batches"}

\* thread w is between the lock's acquire and release
InRecord(w) == Busy(w) /\ Top(w).pc \in {"ok_vectors", "ok_batches", "fail_batches"}

\* this step is the return of the top activation of thread w
Returns(w) ==
    /\ Busy(w)
    /\ Top(w).pc \in {"ok_batches", "fail_batches"}
    /\ stack'[w] # stack[w]

\* this step ends the sleep of the top activation of thread w
Wakes(w) ==
    /\ Busy(w)
    /\ Top(w).pc = "sleep"
    /\ Len(stack'[w]) = Len(stack[w])
    /\ Top(w)'.pc # "sleep"

\* the dict the top activation of thread w returns in a Returns(w) step
Returned(w) ==
    IF Top(w).pc = "ok_batches"
    THEN [success |-> TRUE, batch_num |-> cur[w],
          vectors_uploaded |-> Top(w).count, error |-> None]
    ELSE [success |-> FALSE, batch_num |-> cur[w],
          vectors_uploaded |-> 0, error |-> Top(w).last_error]

\* upsert_chunks has ended other than by an interrupt
RunEnded == mainpc \in {"returned", "fatal"}

\* ---- C1 ----------------------------------------------------------------
\* C1: whatever the planned batches and the remote answers, a run that
\* ends (not counting an interrupt) returns, and its result list holds
\* exactly one outcome for each planned batch.
C1_OneOutcomePerBatch ==
    RunEnded =>
        /\ ret.returned
        /\ Len(results) = Len(batches)
        /\ \A i \in DOMAIN batches :
              Cardinality({k \in DOMAIN results : results[k].batch_num = i}) = 1

\* ---- C2 ----------------------------------------------------------------
\* C2: every split produces two sub-batches strictly smaller than the
\* batch that was split, and a batch of one record is never split.
C2_SplitsStrictlySmaller ==
    \A w \in Workers : \A k \in 1..(Len(stack[w]) - 1) :
        /\ Size(stack[w][k]) > 1
        /\ Size(stack[w][k + 1]) < Size(stack[w][k])

\* ---- C3 ----------------------------------------------------------------
C3_SendsOfTransientBatch ==
    \A w \in Workers : Busy(w) /\ Top(w).trans =>
        /\ Top(w).pc \in FailPath => Top(w).sends = MAX_RETRIES
        /\ Top(w).pc \in {"send", "sleep"} => Top(w).sends < MAX_RETRIES

C3_RecordedOnce ==
    \A w \in Workers :
        Busy(w) /\ Top(w).trans /\ Top(w).pc \in FailPath =>
            IF Returns(w)
            THEN /\ batches_failed' = batches_failed + 1
                 /\ calls'.failed = calls.failed + 1
            ELSE calls'.failed = calls.failed

\* C3: a batch all of whose sends end in a transient error is sent
\* exactly MAX_RETRIES times: it is Failed once it has been sent
\* MAX_RETRIES times and not before, and its activation performs
\* record_batch_failed exactly once, adding one to batches_failed.
C3_TransientExhaustsRetries ==
    []C3_SendsOfTransientBatch /\ [][C3_RecordedOnce]_vars

C3_Witness ==
    \E w \in Workers :
        /\ Busy(w)
        /\ Top(w).pc = "fail_batches"
        /\ Top(w).trans
        /\ Top(w).sends = MAX_RETRIES

\* ---- C4 ----------------------------------------------------------------
\* the step in which a batch becomes Failed changes nothing of the main
\* thread, of the other pool threads or of the other futures, and leaves
\* a failure outcome, not an exception, in its own future
C4_FailureIsLocal ==
    \A w \in Workers :
        Returns(w) /\ Top(w).pc = "fail_batches" =>
            /\ mainpc' = mainpc
            /\ results' = results
            /\ collected' = collected
            /\ \A v \in Workers \ {w} : stack'[v] = stack[v] /\ cur'[v] = cur[v]
            /\ \A i \in DOMAIN batches \ {cur[w]} :
                  fut'[i] = fut[i] /\ outcome'[i] = outcome[i]
            /\ fut'[cur[w]] # "raised"
            /\ Len(stack[w]) = 1 =>
                  fut'[cur[w]] = "done" /\ ~outcome'[cur[w]].success

\* every activation has its own retry budget: it has sent once per pass of
\* its loop, and it is Failed only after MAX_RETRIES sends of its own
C4_OwnRetryBudget ==
    \A w \in Workers : Busy(w) =>
        /\ Top(w).pc = "send" =>
              Top(w).attempt < MAX_RETRIES /\ Top(w).sends = Top(w).attempt
        /\ Top(w).pc \in FailPath => Top(w).sends = MAX_RETRIES

\* a run that returns has an outcome of every batch
C4_RunEndsWithAll ==
    mainpc = "returned" =>
        /\ Len(results) = Len(batches)
        /\ ret.failed_batches =
              Cardinality({k \in DOMAIN results : ~results[k].success})

\* C4: a batch that becomes Failed does not abort the run and touches no
\* sibling: the failing step changes only that batch, every batch has
\* its own full retry budget, and the run returns a summary that counts
\* the failed batches beside the succeeded ones.
C4_FailureDoesNotAbort ==
    /\ [](C4_OwnRetryBudget /\ C4_RunEndsWithAll)
    /\ [][C4_FailureIsLocal]_vars

C4_Witness ==
    /\ mainpc = "returned"
    /\ \E k \in DOMAIN results : results[k].success
    /\ \E k \in DOMAIN results : ~results[k].success
    /\ ret.failed_batches = 1

\* ---- C5 ----------------------------------------------------------------
\* C5: whenever no thread is inside a record call, batches_completed is
\* the number of record_batch_complete calls made, batches_failed the
\* number of record_batch_failed calls, and vectors_uploaded the sum of
\* the counts passed in: no update of a concurrent caller is lost.
C5_NoLostUpdate ==
    (\A w \in Workers : ~InRecord(w)) =>
        /\ batches_completed = calls.complete
        /\ batches_failed = calls.failed
        /\ vectors_uploaded = calls.vectors

\* both kinds of call have been made by the two pool threads
C5_Witness ==
    /\ \A w \in Workers : ~InRecord(w)
    /\ calls.complete >= 1
    /\ calls.failed >= 1
    /\ calls.vectors > 0

\* two threads are at a record call at once, one holding the lock
C5_Contention ==
    \E w, v \in Workers :
        /\ w # v
        /\ InRecord(w)
        /\ Busy(v) /\ Top(v).pc \in {"ok_lock", "fail_lock"}

\* ---- C6 ----------------------------------------------------------------
\* the two halves of a split: records lo+1..lo+n\div 2 and the rest
C6_Halves ==
    \A w \in Workers : \A k \in 1..(Len(stack[w]) - 1) :
        LET p == stack[w][k]
            c == stack[w][k + 1]
            n == p.hi - p.lo
        IN  /\ p.pc \in {"call1", "call2"}
            /\ p.pc = "call1" => c.lo = p.lo /\ c.hi - c.lo = n \div 2
            /\ p.pc = "call2" =>
                  /\ c.hi = p.hi /\ c.hi - c.lo = n - (n \div 2)
                  /\ p.r1 # NoResult

\* first non-null of two error values
C6_FirstError(e1, e2) == IF e1 # None THEN e1 ELSE e2

C6_Merged(r1, r2) ==
    [success |-> r1.success /\ r2.success,
     batch_num |-> r1.batch_num,
     vectors_uploaded |-> r1.vectors_uploaded + r2.vectors_uploaded,
     error |-> C6_FirstError(r1.error, r2.error)]

\* the return of a half: after the first half, whatever its result, the
\* second half is submitted; after the second half of a top-level batch the
\* future holds the merged dict
C6_BothThenMerge ==
    \A w \in Workers :
        Returns(w) /\ Len(stack[w]) >= 2 =>
            LET n == Len(stack[w])
                p == stack[w][n - 1]
            IN  /\ p.pc = "call1" =>
                      /\ Len(stack'[w]) = n
                      /\ stack'[w][n - 1].pc = "call2"
                      /\ stack'[w][n - 1].r1 = Returned(w)
                      /\ stack'[w][n].pc = "send"
                      /\ stack'[w][n].lo = p.lo + ((p.hi - p.lo) \div 2)
                      /\ stack'[w][n].hi = p.hi
                /\ p.pc = "call2" /\ n = 2 =>
                      /\ fut'[cur[w]] = "done"
                      /\ outcome'[cur[w]] = C6_Merged(p.r1, Returned(w))
                /\ p.pc = "call2" /\ n > 2 /\ stack[w][n - 2].pc = "call1" =>
                      stack'[w][n - 2].r1 = C6_Merged(p.r1, Returned(w))

\* C6: a batch of n records answered 413 is split at n \div 2 into the
\* contiguous halves of n \div 2 and n - n \div 2 records, in order; both
\* halves are submitted, the second also when the first failed; the
\* parent's outcome is the merge: success of both, sum of the counts,
\* first non-null error.
C6_SplitAndMerge == []C6_Halves /\ [][C6_BothThenMerge]_vars

\* a merged outcome whose first half failed and whose second half, still
\* submitted, succeeded
C6_Witness ==
    \E i \in DOMAIN batches :
        /\ fut[i] = "done"
        /\ ~outcome[i].success
        /\ outcome[i].vectors_uploaded > 0
        /\ outcome[i].error # None
        /\ calls.failed = 1

\* ---- C7 ----------------------------------------------------------------
\* the sleep after a 429 that carries Retry-After: d ends only when d time
\* units have passed
C7_WaitsRetryAfter ==
    \A w \in Workers :
        Wakes(w) /\ Top(w).why = "rate" /\ Top(w).ra >= 0 =>
            Top(w).waited >= Top(w).ra

\* an activation whose last answer before the 200 was a 429 returns a
\* success dict, and no step of it adds to batches_failed
C7_ThenSuccess ==
    \A w \in Workers :
        Busy(w) /\ Top(w).after429 /\ Top(w).pc \in OkPath /\ stack'[w] # stack[w] =>
            /\ batches_failed' = batches_failed
            /\ calls'.failed = calls.failed
            /\ Returns(w) /\ Len(stack[w]) = 1 =>
                  fut'[cur[w]] = "done" /\ outcome'[cur[w]].success
            /\ Returns(w) /\ Len(stack[w]) >= 2
                  /\ stack[w][Len(stack[w]) - 1].pc = "call1" =>
                  stack'[w][Len(stack[w]) - 1].r1.success

\* C7: after a 429 with Retry-After: d the batch is not sent again before
\* d time units have passed, and when the send that follows is answered
\* 200 the batch's outcome is a success and batches_failed is not
\* incremented for it.
C7_RetryAfterHonoured == [][C7_WaitsRetryAfter /\ C7_ThenSuccess]_vars

\* a batch answered 429 with Retry-After: MaxRetryAfter and then 200 is
\* about to return its success dict, nothing counted as failed
C7_Witness ==
    \E w \in Workers :
        /\ Busy(w)
        /\ Top(w).pc = "ok_batches"
        /\ Top(w).after429
        /\ Top(w).ra = MaxRetryAfter
        /\ batches_failed = 0

\* ---- C8 ----------------------------------------------------------------
\* C8: the wait after a 429 always ends in another send of the same batch:
\* RateLimited goes back to Sending, never to Failed.
C8_RateLimitedResends ==
    [][\A w \in Workers :
          Wakes(w) /\ Top(w).why = "rate" => Top(w)'.pc = "send"]_vars

\* ---- C9 ----------------------------------------------------------------
\* C9: every outcome with success = false carries a non-null error.
C9_FailedOutcomeHasError ==
    \A i \in DOMAIN batches :
        fut[i] = "done" /\ ~outcome[i].success => outcome[i].error # None

\* ---- C10 ---------------------------------------------------------------
\* C10: once the interrupt has arrived no batch that has not started is
\* started, and the run hands the outcomes gathered so far to its caller.
C10_InterruptStopsSubmitting ==
    /\ [][mainpc = "interrupted" =>
            \A i \in DOMAIN batches : fut[i] = "pending" => fut'[i] = "pending"]_vars
    /\ [](mainpc = "interrupted_exit" => ret.returned)

\* ---- C11 ---------------------------------------------------------------
\* the positions in all_vectors of the records of a file
RecordsOf(name) == {r \in DOMAIN all_vectors : all_vectors[r].file = name}

\* the planned batches that hold a record of a file
BatchesOf(name) ==
    {i \in DOMAIN batches :
        \E r \in RecordsOf(name) : batches[i][1] < r /\ r <= batches[i][2]}

\* C11: a file has a manifest entry only if the remote store accepted at
\* least one of its own records; a file all of whose records went in
\* batches of which no record was accepted has none of its records
\* accepted, and so gets no entry, whatever happened to the other files.
C11_ManifestOnlyForAccepted ==
    \A name \in DOMAIN manifest :
        \E i \in BatchesOf(name) :
            fut[i] = "done" /\ outcome[i].vectors_uploaded > 0

\* ---- C12 ---------------------------------------------------------------
\* a step that writes the manifest adds one entry at the end of the list
\* of one file and changes nothing else
C12_OneEntryAppended ==
    manifest' # manifest =>
        \E f \in DOMAIN manifest' :
            /\ DOMAIN manifest' = DOMAIN manifest \cup {f}
            /\ Len(manifest'[f]) = Len(Entries(manifest, f)) + 1
            /\ \A k \in 1..Len(Entries(manifest, f)) :
                  manifest'[f][k] = Entries(manifest, f)[k]
            /\ \A g \in DOMAIN manifest \ {f} : manifest'[g] = manifest[g]

\* C12: update_manifest for file f leaves the entry list of f as the
\* previous list with exactly one entry added at the end, and the lists
\* of all other files unchanged; no call removes or overwrites an entry
\* written earlier.
C12_AppendOnly == [][C12_OneEntryAppended]_vars

\* a file with two entries beside another file with an entry
C12_Witness ==
    \E f, g \in DOMAIN manifest :
        /\ f # g
        /\ Len(manifest[f]) >= 2
        /\ Len(manifest[g]) >= 1
        /\ manifest[f][1] # manifest[f][2]

\* ---- C13 ---------------------------------------------------------------
\* C13: a call with overlap >= size is rejected before any chunking: it
\* takes no window of the text and returns no chunk list.
C13_InvalidConfigRejected ==
    overlap >= size => windows = <<>> /\ cpc # "done"

\* ---- C14 ---------------------------------------------------------------
ValidConfig == 0 <= overlap /\ overlap < size

\* the windows taken so far: the first starts at 0, each next one starts
\* at the end of the one before minus overlap, which is further on than
\* the start of the one before and not beyond its end; each window is
\* `size` long or ends at the end of the text
C14_WindowsInOrder ==
    /\ windows # <<>> => windows[1][1] = 0
    /\ \A k \in DOMAIN windows :
          /\ windows[k][1] < windows[k][2]
          /\ windows[k][2] = Min(windows[k][1] + size, Len(text))
    /\ \A k \in 2..Len(windows) :
          /\ windows[k][1] = windows[k - 1][2] - overlap
          /\ windows[k][1] > windows[k - 1][1]
          /\ windows[k][1] <= windows[k - 1][2]

\* the windows of a call that has returned cover every position
C14_Covered ==
    cpc = "done" =>
        /\ text # <<>> => windows # <<>> /\ windows[Len(windows)][2] = Len(text)
        /\ \A q \in 1..Len(text) :
              \E k \in DOMAIN windows : windows[k][1] < q /\ q <= windows[k][2]

\* every pass that does not end the loop moves the cursor forward
C14_CursorAdvances == cpc' = "loop" /\ windows' # windows => start' > start

\* C14: with 0 <= overlap < size, on a text of any length, the call
\* returns; the cursor strictly increases at each pass; the first window
\* starts at 0, each next window starts at the previous window's end
\* minus overlap, the last window ends at the end of the text, and no
\* position of the text is left out.
C14_TerminatesAndCovers ==
    /\ [](ValidConfig => C14_WindowsInOrder /\ C14_Covered)
    /\ [][ValidConfig => C14_CursorAdvances]_vars
    /\ (ValidConfig ~> cpc = "done")

\* a call with overlap > 0 that took three windows and returned
C14_Witness ==
    /\ ValidConfig
    /\ overlap > 0
    /\ cpc = "done"
    /\ Len(windows) >= 3

\* ---- C15 ---------------------------------------------------------------
\* the text without its leading and trailing whitespace
C15_Trimmed(s) ==
    LET ix == {i \in 1..Len(s) : s[i] # " "}
    IN  IF ix = {} THEN <<>>
        ELSE SubSeq(s, CHOOSE i \in ix : \A j \in ix : i <= j,
                       CHOOSE i \in ix : \A j \in ix : i >= j)

\* C15 as stated: the empty string gives no chunk, and every other string
\* of length <= size gives exactly one chunk, the trimmed input.
C15_ShortTextOneChunk ==
    cpc = "done" =>
        /\ text = <<>> => chunks = <<>>
        /\ text # <<>> /\ Len(text) <= size => chunks = <<C15_Trimmed(text)>>

\* C15 (amended): a string of length <= size that has a non-whitespace
\* character gives exactly one chunk, the trimmed input; the empty string
\* and a string of whitespace only give no chunk.
C15_ShortTextTrimmed ==
    cpc = "done" /\ Len(text) <= size =>
        IF C15_Trimmed(text) = <<>>
        THEN chunks = <<>>
        ELSE chunks = <<C15_Trimmed(text)>>

\* a returned call on a short text that had whitespace to trim at its end
C15_Witness ==
    /\ cpc = "done"
    /\ Len(text) <= size
    /\ text # <<>>
    /\ text[Len(text)] = " "
    /\ C15_Trimmed(text) # <<>>
    /\ chunks # <<>>

\* ---- C16 ---------------------------------------------------------------
\* C16: the planned batches are contiguous slices that, one after the
\* other, are exactly the record list: the first starts at the first
\* record, each next one starts where the one before ends, the last ends
\* at the last record; every batch is non-empty, every batch but the last
\* has BATCH_SIZE records and the last has at most BATCH_SIZE.
C16_PlanIsPartition ==
    mainpc # "idle" =>
        /\ Len(batches) >= 1
        /\ batches[1][1] = 0
        /\ batches[Len(batches)][2] = Len(all_vectors)
        /\ \A k \in 2..Len(batches) : batches[k][1] = batches[k - 1][2]
        /\ \A k \in DOMAIN batches :
              /\ batches[k][1] < batches[k][2]
              /\ batches[k][2] - batches[k][1] <= BATCH_SIZE
              /\ k < Len(batches) => batches[k][2] - batches[k][1] = BATCH_SIZE

\* a plan of two batches, the last one shorter
C16_Witness ==
    /\ mainpc # "idle"
    /\ Len(batches) = 2
    /\ batches[2][2] - batches[2][1] < BATCH_SIZE

\* ---- C17 ---------------------------------------------------------------
\* Phase 1 has passed file i
C17_Passed(i) == dpc # "extract" \/ i < fidx

\* file i raises at extraction, or has no page with text
C17_NoText(i) ==
    \/ files[i].error
    \/ \A k \in DOMAIN files[i].pages :
          \A j \in DOMAIN files[i].pages[k] : files[i].pages[k][j] = " "

\* a file without text has one result, skipped or error; it has no record,
\* no count and no manifest entry
C17_Skipped ==
    \A i \in DOMAIN files : C17_Passed(i) /\ C17_NoText(i) =>
        /\ Cardinality({k \in DOMAIN dresults :
                           dresults[k].filename = files[i].name}) = 1
        /\ \A k \in DOMAIN dresults :
              dresults[k].filename = files[i].name =>
                  dresults[k].status = (IF files[i].error THEN "error" ELSE "skipped")
        /\ RecordsOf(files[i].name) = {}
        /\ \A k \in DOMAIN file_vector_counts :
              file_vector_counts[k].name # files[i].name
        /\ files[i].name \notin DOMAIN manifest

\* every other file is chunked, whatever the files before it were, and
\* once upsert_chunks is called each of its records is in a planned batch
C17_OthersUploaded ==
    \A i \in DOMAIN files : C17_Passed(i) /\ ~C17_NoText(i) =>
        /\ RecordsOf(files[i].name) # {}
        /\ \E k \in DOMAIN file_vector_counts :
              /\ file_vector_counts[k].name = files[i].name
              /\ file_vector_counts[k].count = Cardinality(RecordsOf(files[i].name))
        /\ dpc # "extract" =>
              \A r \in RecordsOf(files[i].name) :
                  Cardinality({b \in DOMAIN batches :
                                  batches[b][1] < r /\ r <= batches[b][2]}) = 1

\* C17: a file with no pages, no chunks or an extraction error gets a
\* skipped or error result, adds no record to the batch set and nothing
\* to the manifest; every other file of the run is still chunked and its
\* records are handed to the upload.
C17_SkipDoesNotAbort == C17_Skipped /\ C17_OthersUploaded

\* the first file raised at extraction, the second was uploaded and has
\* its manifest entry
C17_Witness ==
    /\ dpc = "done"
    /\ files[1].error
    /\ files[2].name \in DOMAIN manifest
    /\ \E k \in DOMAIN dresults : dresults[k].status = "error"
    /\ \E k \in DOMAIN dresults : dresults[k].status = "success"

\* ---- C18 ---------------------------------------------------------------
\* the pool threads running batch i
C18_ThreadsOf(i) == {w \in Workers : cur[w] = i}

\* a batch that has been taken and has not ended is on exactly one pool
\* thread, every other batch on none; so at most PARALLEL_UPLOADS batches
\* are being sent or waiting at a time; and every activation on a thread's
\* stack, a sub-batch of a split included, is part of that thread's batch
C18_OneThreadPerBatch ==
    /\ \A i \in DOMAIN batches :
          Cardinality(C18_ThreadsOf(i)) = (IF fut[i] = "running" THEN 1 ELSE 0)
    /\ Cardinality({i \in DOMAIN batches : fut[i] = "running"}) <= PARALLEL_UPLOADS
    /\ \A w \in Workers :
          /\ Busy(w) <=> stack[w] # <<>>
          /\ \A k \in DOMAIN stack[w] :
                /\ batches[cur[w]][1] <= stack[w][k].lo
                /\ stack[w][k].hi <= batches[cur[w]][2]

\* a thread leaves its batch only when the batch has ended, a batch that
\* has ended is not run again, and a batch is taken by one thread
C18_RunsToTheEnd ==
    /\ \A w \in Workers :
          Busy(w) /\ cur'[w] # cur[w] =>
              cur'[w] = 0 /\ fut'[cur[w]] \in {"done", "raised"}
    /\ \A i \in DOMAIN batches :
          /\ fut[i] \in {"done", "raised"} => fut'[i] = fut[i]
          /\ fut[i] = "running" => fut'[i] # "pending"

\* C18: at every moment at most PARALLEL_UPLOADS batches are being sent
\* or waiting in a sleep; each planned batch is taken by exactly one pool
\* thread, which runs it, the sub-batches of a split included, to its end
\* before it takes another batch.
C18_BoundedPool == []C18_OneThreadPerBatch /\ [][C18_RunsToTheEnd]_vars

\* every pool thread is busy, one asleep and one inside a split, while a
\* planned batch still waits in the queue
C18_Witness ==
    /\ \A w \in Workers : Busy(w)
    /\ \E i \in DOMAIN batches : fut[i] = "pending"
    /\ \E w \in Workers : Top(w).pc = "sleep"
    /\ \E w \in Workers : Len(stack[w]) >= 2

\* ---- C19 ---------------------------------------------------------------
\* C19: every record id consists only of letters, digits, underscore and
\* hyphen, and two records of a run never have the same id, their tokens
\* being different: also records of the same file, page and chunk index,
\* and records of two files whose names sanitize to the same string.
C19_IdsCleanAndUnique ==
    /\ \A k \in DOMAIN ids : \A i \in DOMAIN ids[k].id : ids[k].id[i] \in IdChars
    /\ \A k, l \in DOMAIN ids : k # l => ids[k].id # ids[l].id

\* two records of the same page and chunk index, of two files whose
\* different names sanitize to the same string, one name holding a
\* character outside the allowed set
C19_Witness ==
    \E k, l \in DOMAIN ids :
        /\ ids[k].file # ids[l].file
        /\ sanitize_id(ids[k].file) = sanitize_id(ids[l].file)
        /\ ids[k].page = ids[l].page
        /\ ids[k].chunk = ids[l].chunk
        /\ \E i \in DOMAIN ids[k].file : ids[k].file[i] \notin IdChars

\* ---- C20 ---------------------------------------------------------------
\* the list process_and_upload_pdfs returns for these files when every
\* record is accepted: the skipped and error items of Phase 1, then a
\* success item with the chunk count of every other file
C20_AllAcceptedResults ==
    SelectSeq(dresults, LAMBDA r : r.status \in {"skipped", "error"})
    \o [k \in DOMAIN file_vector_counts |->
           FileResult(file_vector_counts[k].name, "success",
                      file_vector_counts[k].count)]

\* C20: a run in which no batch failed and the remote store reported fewer
\* accepted records than it was sent returns a result that differs from
\* the result of the run in which every record was accepted.
C20_ShortfallSurfaced ==
    /\ dpc = "done"
    /\ mainpc = "returned"
    /\ ret.failed_batches = 0
    /\ ret.vectors_uploaded < total_vectors
    => dresults # C20_AllAcceptedResults

\* ---- C21 ---------------------------------------------------------------
\* C21: the lock of UploadStats is held only by a pool thread that is
\* between the acquire and the release of record_batch_complete or
\* record_batch_failed: a thread that is sending, asleep in a rate-limit
\* or backoff wait, or idle never holds it, so it never keeps another
\* thread from updating the counters.
C21_LockOnlyInRecord ==
    /\ lock \in Workers \cup {0}
    /\ \A w \in Workers :
          /\ lock = w => InRecord(w)
          /\ Busy(w) /\ Top(w).pc \in {"send", "sleep"} => lock # w
    /\ \A w \in Workers :
          Busy(w) /\ Top(w).pc \in {"ok_lock", "fail_lock"} /\ lock # 0 =>
              InRecord(lock)

\* one thread holds the lock inside a record call while the other is
\* asleep in a wait
C21_Witness ==
    \E w, v \in Workers :
        /\ w # v
        /\ lock = w
        /\ InRecord(w)
        /\ Busy(v)
        /\ Top(v).pc = "sleep"
        /\ Top(v).waited < Top(v).delay

\* ---- C22 ---------------------------------------------------------------
\* the answer to this send of thread w is a transient error: the thread
\* goes to its backoff sleep or, sleeping not at all, to record_batch_failed
C22_TransientAnswer(w) ==
    /\ Busy(w)
    /\ Top(w).pc = "send"
    /\ Len(stack'[w]) = Len(stack[w])
    /\ \/ Top(w)'.pc = "sleep" /\ Top(w)'.why = "backoff"
       \/ Top(w)'.pc = "fail_lock"

\* after a transient error on attempt k < MAX_RETRIES - 1 the thread
\* sleeps min(2^k, 30); after one on the last attempt it does not sleep
C22_DelayChosen ==
    \A w \in Workers : C22_TransientAnswer(w) =>
        LET k == Top(w).attempt
        IN  IF k < MAX_RETRIES - 1
            THEN /\ Top(w)'.pc = "sleep"
                 /\ Top(w)'.delay = (IF 2 ^ k < 30 THEN 2 ^ k ELSE 30)
                 /\ Top(w)'.waited = 0
                 /\ Top(w)'.attempt = k
            ELSE /\ Top(w)'.pc = "fail_lock"
                 /\ k = MAX_RETRIES - 1

\* the backoff sleep ends only when the whole delay has passed, and the
\* next send, on attempt k + 1, follows it
C22_DelayWaited ==
    \A w \in Workers : Wakes(w) /\ Top(w).why = "backoff" =>
        /\ Top(w).waited >= (IF 2 ^ Top(w).attempt < 30 THEN 2 ^ Top(w).attempt ELSE 30)
        /\ Top(w)'.pc = "send"
        /\ Top(w)'.attempt = Top(w).attempt + 1

\* C22: after a transient error on the send with attempt index k the
\* thread waits min(2^k, 30) time units before the next send when
\* k < MAX_RETRIES - 1, and does not wait after the last attempt
\* (k = MAX_RETRIES - 1) before the batch becomes Failed.
C22_ExponentialBackoff == [][C22_DelayChosen /\ C22_DelayWaited]_vars

\* a thread at the end of the backoff wait of 2 that follows its second
\* attempt
C22_Witness ==
    \E w \in Workers :
        /\ Busy(w)
        /\ Top(w).pc = "sleep"
        /\ Top(w).why = "backoff"
        /\ Top(w).attempt = 1
        /\ Top(w).waited = 2

\* ---- C23 ---------------------------------------------------------------
\* sum of vectors_uploaded over the first n outcomes of a list
RECURSIVE C23_SumUploaded(_, _)
C23_SumUploaded(seq, n) ==
    IF n = 0 THEN 0 ELSE seq[n].vectors_uploaded + C23_SumUploaded(seq, n - 1)

\* C23: when upsert_chunks returns, stats.vectors_uploaded, which is also
\* the vectors_uploaded of the returned summary, is the sum of
\* vectors_uploaded over the outcomes of the batches, whatever mix of
\* successes, failures, waits and splits the batches went through.
C23_TrackerMatchesOutcomes ==
    mainpc = "returned" =>
        /\ vectors_uploaded = C23_SumUploaded(results, Len(results))
        /\ ret.vectors_uploaded = vectors_uploaded

\* a returned run whose batch was split, one leaf uploaded and one leaf
\* failed after its retries
C23_Witness ==
    /\ mainpc = "returned"
    /\ calls.complete >= 1
    /\ calls.failed >= 1
    /\ vectors_uploaded > 0
    /\ \E k \in DOMAIN results :
          ~results[k].success /\ results[k].vectors_uploaded > 0

\* ---- C24 ---------------------------------------------------------------
\* C24: batches_completed + batches_failed never exceeds total_batches,
\* the number of planned batches, and equals it when the run has
\* returned: every planned batch is counted once, as completed or as
\* failed, also when it was split.
C24_EachBatchCountedOnce ==
    /\ batches_completed + batches_failed <= Len(batches)
    /\ mainpc = "returned" => batches_completed + batches_failed = Len(batches)

====
